---- MODULE Spec2Model ----
(***************************************************************************)
(* Model of pkg/apps/metrics/prometheus/metrics.go: the prometheus         *)
(* collector for deployment config rollouts.                               *)
(*                                                                         *)
(* One scrape (appsCollector.Collect) is modelled as a walk over the       *)
(* replication controllers returned by the lister: one step for the fetch, *)
(* one step per loop iteration, one step for everything emitted after the  *)
(* loop, and one step for the return.  IntializeMetricsCollector is one    *)
(* step.                                                                   *)
(***************************************************************************)
EXTENDS Integers, Sequences, FiniteSets, TLC

(***************************************************************************)
(* Bounds of the model.                                                    *)
(***************************************************************************)
MaxLen == 3      \* longest list the lister returns
MaxGen == 2      \* the highest observed generation
MaxTime == 2     \* the latest value of time.Now().Unix()

Gens == {1, MaxGen}
Times == {0, MaxTime}
Stamps == {1, MaxTime + 1}
Listers == {"rcListerA", "rcListerB"}
NoLister == "nil"

(***************************************************************************)
(* Constants of metrics.go.                                                *)
(***************************************************************************)
completeRolloutCount == "complete_rollouts_total"
activeRolloutDurationSeconds == "active_rollouts_duration_seconds"
lastFailedRolloutTime == "last_failed_rollout_time"

availablePhase == "available"
failedPhase == "failed"
cancelledPhase == "cancelled"

CounterValue == "counter"
GaugeValue == "gauge"

nameToQuery(name) == "openshift_apps_deploymentconfigs" \o "_" \o name

completeRolloutCountDesc ==
    [fqName |-> nameToQuery(completeRolloutCount),
     variableLabels |-> <<"phase">>]

lastFailedRolloutTimeDesc ==
    [fqName |-> nameToQuery(lastFailedRolloutTime),
     variableLabels |-> <<"namespace", "name", "generation">>]

activeRolloutDurationSecondsDesc ==
    [fqName |-> nameToQuery(activeRolloutDurationSeconds),
     variableLabels |-> <<"namespace", "name", "phase", "generation">>]

(***************************************************************************)
(* Replication controllers as the collector sees them.  Config, Status and *)
(* Cancelled are the annotations the helpers of pkg/apps/util read.        *)
(***************************************************************************)
RC(ns, config, status, cancel, gen, created) ==
    [Namespace |-> ns, Config |-> config, Status |-> status,
     Cancelled |-> cancel, ObservedGeneration |-> gen,
     CreationTimestamp |-> created]

\* Unattributable controllers, whatever their status.
UnnamedRCs ==
    {RC("n1", "", "Failed", FALSE, 1, 1), RC("n1", "", "Running", FALSE, 1, 1)}

\* Failed rollouts of one deployment config, one per generation.
FailedRCs == {RC("n1", "b", "Failed", FALSE, g, 1) : g \in Gens}

\* Terminated and cancelled rollouts (failed or complete underneath).
CancelledRCs ==
    {RC("n1", "a", "Failed", TRUE, 1, 1), RC("n1", "a", "Complete", TRUE, 1, 1)}

CompleteRCs == {RC("n1", "a", "Complete", FALSE, 1, 1)}

\* Rollouts in flight: one without a phase, one running that is being
\* cancelled.
ActiveRCs ==
    {RC("n1", "c", "", FALSE, 1, 1),
     RC("n2", "c", "Running", TRUE, MaxGen, 1)}

Resources == UnnamedRCs \cup FailedRCs \cup CancelledRCs \cup CompleteRCs \cup ActiveRCs

SeqsUpTo(S, n) == UNION {[1..k -> S] : k \in 0..n}

Lists == SeqsUpTo(Resources, MaxLen)

(***************************************************************************)
(* Helpers of pkg/apps/util, which the collector consumes as given facts.  *)
(***************************************************************************)
DeploymentConfigNameFor(d) == d.Config

DeploymentStatusFor(d) == d.Status

IsCompleteDeployment(d) == DeploymentStatusFor(d) = "Complete"

IsFailedDeployment(d) == DeploymentStatusFor(d) = "Failed"

IsTerminatedDeployment(d) == IsCompleteDeployment(d) \/ IsFailedDeployment(d)

IsDeploymentCancelled(d) == d.Cancelled

(***************************************************************************)
(* Library functions, by what they do on the values of the model.          *)
(***************************************************************************)
\* strings.ToLower on the deployment phases.
ToLower(s) ==
    CASE s = "New" -> "new"
      [] s = "Pending" -> "pending"
      [] s = "Running" -> "running"
      [] s = "Complete" -> "complete"
      [] s = "Failed" -> "failed"
      [] OTHER -> s

Digit(n) ==
    CASE n = 0 -> "0" [] n = 1 -> "1" [] n = 2 -> "2" [] n = 3 -> "3"
      [] n = 4 -> "4" [] n = 5 -> "5" [] n = 6 -> "6" [] n = 7 -> "7"
      [] n = 8 -> "8" [] n = 9 -> "9"

RECURSIVE FormatNat(_)
FormatNat(n) ==
    IF n < 10 THEN Digit(n) ELSE FormatNat(n \div 10) \o Digit(n % 10)

\* fmt.Sprintf("%d", n)
FormatInt(n) == IF n < 0 THEN "-" \o FormatNat(-n) ELSE FormatNat(n)

\* strings.Split(s, sep) for a one character separator.
RECURSIVE Split(_, _)
Split(s, sep) ==
    LET hits == {i \in 1..Len(s) : SubSeq(s, i, i) = sep}
    IN  IF hits = {}
        THEN <<s>>
        ELSE LET i == CHOOSE h \in hits : \A o \in hits : h <= o
             IN  <<SubSeq(s, 1, i - 1)>> \o Split(SubSeq(s, i + 1, Len(s)), sep)

\* prometheus.MustNewConstMetric panics when the label values do not match
\* the variable labels of the descriptor; valid = FALSE stands for the panic.
MustNewConstMetric(desc, valueType, value, labelValues) ==
    [desc |-> desc.fqName, valueType |-> valueType, value |-> value,
     labelValues |-> labelValues,
     valid |-> Len(labelValues) = Len(desc.variableLabels)]

Orderings(S) ==
    {o \in [1..Cardinality(S) -> S] : \A i, j \in 1..Cardinality(S) : o[i] = o[j] => i = j}

(***************************************************************************)
(* The pieces of Collect.                                                  *)
(***************************************************************************)
\* Classify without the check of the name.
Classify_NoSkip(d) ==
    IF IsTerminatedDeployment(d) /\ IsDeploymentCancelled(d) THEN "cancelled"
    ELSE IF IsTerminatedDeployment(d) /\ IsFailedDeployment(d) THEN "failed"
    ELSE IF IsTerminatedDeployment(d) /\ IsCompleteDeployment(d) THEN "available"
    ELSE "active"

\* Classify with the failed check ahead of the cancelled check.
Classify_FailedFirst(d) ==
    IF Len(DeploymentConfigNameFor(d)) = 0 THEN "skip"
    ELSE IF IsTerminatedDeployment(d) /\ IsFailedDeployment(d) THEN "failed"
    ELSE IF IsTerminatedDeployment(d) /\ IsDeploymentCancelled(d) THEN "cancelled"
    ELSE IF IsTerminatedDeployment(d) /\ IsCompleteDeployment(d) THEN "available"
    ELSE "active"

\* The branch a controller takes in the loop body.
Classify(d) ==
    IF Len(DeploymentConfigNameFor(d)) = 0 THEN "skip"
    ELSE IF IsTerminatedDeployment(d) /\ IsDeploymentCancelled(d) THEN "cancelled"
    ELSE IF IsTerminatedDeployment(d) /\ IsFailedDeployment(d) THEN "failed"
    ELSE IF IsTerminatedDeployment(d) /\ IsCompleteDeployment(d) THEN "available"
    ELSE "active"

RolloutKey(d) == d.Namespace \o "/" \o DeploymentConfigNameFor(d)

FailedRolloutOf(d) ==
    [timestamp |-> d.CreationTimestamp, generation |-> d.ObservedGeneration]

\* latestFailedRollouts[key] = r
MapPut(m, key, r) ==
    [k \in DOMAIN m \cup {key} |-> IF k = key THEN r ELSE m[k]]

\* UpdateLatestFailed that also records the first failure of a key.
UpdateLatestFailed_Insert(m, d) ==
    LET key == RolloutKey(d)
        shouldUpdate ==
            IF key \in DOMAIN m
            THEN d.ObservedGeneration > m[key].generation
            ELSE TRUE
    IN  IF shouldUpdate THEN MapPut(m, key, FailedRolloutOf(d)) ELSE m

\* UpdateLatestFailed that records only the first failure of a key.
UpdateLatestFailed_Seed(m, d) ==
    LET key == RolloutKey(d)
    IN  IF key \in DOMAIN m THEN m ELSE MapPut(m, key, FailedRolloutOf(d))

\* UpdateLatestFailed with the comparison of the generations turned round.
UpdateLatestFailed_Less(m, d) ==
    LET key == RolloutKey(d)
        shouldUpdate ==
            IF key \in DOMAIN m
            THEN d.ObservedGeneration < m[key].generation
            ELSE FALSE
    IN  IF shouldUpdate THEN MapPut(m, key, FailedRolloutOf(d)) ELSE m

\* The latest failed rollout bookkeeping of the failed branch.
UpdateLatestFailed(m, d) ==
    LET key == RolloutKey(d)
        shouldUpdate ==
            IF key \in DOMAIN m
            THEN d.ObservedGeneration > m[key].generation
            ELSE FALSE
    IN  IF shouldUpdate THEN MapPut(m, key, FailedRolloutOf(d)) ELSE m

\* The phase label of an active rollout.
PhaseLabel(d) ==
    LET phase == ToLower(DeploymentStatusFor(d))
    IN  IF Len(phase) = 0 THEN "unknown" ELSE phase

\* DurationSeconds with the operands swapped.
DurationSeconds_Swapped(t, d) == d.CreationTimestamp - t

DurationSeconds(t, d) == t - d.CreationTimestamp

ActiveMetric(t, d) ==
    MustNewConstMetric(
        activeRolloutDurationSecondsDesc,
        CounterValue,
        DurationSeconds(t, d),
        <<d.Namespace, DeploymentConfigNameFor(d), PhaseLabel(d),
          FormatInt(d.ObservedGeneration)>>)

\* One sample of the loop over latestFailedRollouts; parts[1] of a key
\* without "/" is an index out of range.
FailedMetric(dc, r) ==
    LET parts == Split(dc, "/")
    IN  IF Len(parts) < 2
        THEN [valid |-> FALSE]
        ELSE MustNewConstMetric(
                lastFailedRolloutTimeDesc,
                GaugeValue,
                r.timestamp,
                <<parts[1], parts[2], FormatInt(r.generation)>>)

CounterMetrics(a, f, c) ==
    <<MustNewConstMetric(completeRolloutCountDesc, GaugeValue, a, <<availablePhase>>),
      MustNewConstMetric(completeRolloutCountDesc, GaugeValue, f, <<failedPhase>>),
      MustNewConstMetric(completeRolloutCountDesc, GaugeValue, c, <<cancelledPhase>>)>>

\* SendAll where the receiver sees the latest metric first.
RECURSIVE SendAll_Front(_, _)
SendAll_Front(c, ms) ==
    IF ms = <<>> THEN [ch |-> c, panicked |-> FALSE]
    ELSE IF ~ms[1].valid THEN [ch |-> c, panicked |-> TRUE]
    ELSE SendAll_Front(<<ms[1]>> \o c, Tail(ms))

\* ch <- m for each m of ms in turn; a panic stops the sends.
RECURSIVE SendAll(_, _)
SendAll(c, ms) ==
    IF ms = <<>> THEN [ch |-> c, panicked |-> FALSE]
    ELSE IF ~ms[1].valid THEN [ch |-> c, panicked |-> TRUE]
    ELSE SendAll(Append(c, ms[1]), Tail(ms))

(***************************************************************************)
(* State.                                                                  *)
(***************************************************************************)
VARIABLES
    lister,                 \* apps.lister
    registered,             \* the registered flag
    registrations,          \* calls of prometheus.MustRegister(&apps) so far
    lastSource,             \* rcLister of the most recent Intialize call
    calls,                  \* Intialize calls so far: none, one, several
    pc,                     \* position of the scrape: idle, loop, done
    err,                    \* err of c.lister.List
    fetches,                \* calls of c.lister.List in this scrape
    result,                 \* result of c.lister.List
    idx,                    \* position of the range loop in result
    available,
    failed,
    cancelled,
    latestFailedRollouts,
    ch,                     \* the metrics sent to ch in this scrape
    now,                    \* the last value of time.Now().Unix()
    panicked                \* Collect ended in a panic

locals == <<err, fetches, result, idx, available, failed, cancelled,
            latestFailedRollouts, ch, panicked>>

vars == <<lister, registered, registrations, lastSource, calls, pc, err, fetches,
          result, idx, available, failed, cancelled, latestFailedRollouts,
          ch, now, panicked>>

EmptyMap == [k \in {} |-> 0]

NoLocals ==
    /\ err = FALSE
    /\ fetches = 0
    /\ result = <<>>
    /\ idx = 1
    /\ available = 0
    /\ failed = 0
    /\ cancelled = 0
    /\ latestFailedRollouts = EmptyMap
    /\ ch = <<>>
    /\ panicked = FALSE

Init ==
    /\ lister = NoLister
    /\ registered = FALSE
    /\ registrations = 0
    /\ lastSource = NoLister
    /\ calls = "none"
    /\ pc = "idle"
    /\ now = 0
    /\ NoLocals

(***************************************************************************)
(* IntializeMetricsCollector, called by the hosting process between        *)
(* scrapes.                                                                *)
(***************************************************************************)
\* IntializeMetricsCollector without the check of the registered flag.
IntializeMetricsCollector_NoFlag ==
    /\ pc = "idle"
    /\ \E rcLister \in Listers :
        /\ lastSource' = rcLister
        /\ lister' = rcLister
    /\ calls' = IF calls = "none" THEN "one" ELSE "several"
    /\ registrations' = registrations + 1
    /\ registered' = TRUE
    /\ UNCHANGED <<pc, now>>
    /\ UNCHANGED locals

IntializeMetricsCollector ==
    /\ pc = "idle"
    /\ \E rcLister \in Listers :
        /\ lastSource' = rcLister
        /\ lister' = rcLister
    /\ calls' = IF calls = "none" THEN "one" ELSE "several"
    /\ IF ~registered
       THEN registrations' = registrations + 1 /\ registered' = TRUE
       ELSE UNCHANGED <<registrations, registered>>
    /\ UNCHANGED <<pc, now>>
    /\ UNCHANGED locals

(***************************************************************************)
(* Collect.  The registry calls it only once the collector is registered.  *)
(***************************************************************************)
\* CollectFetchFail without the return: the loop runs over the nil result.
CollectFetchFail_NoReturn ==
    /\ pc = "idle"
    /\ registered
    /\ fetches' = fetches + 1
    /\ err' = TRUE
    /\ pc' = "loop"
    /\ UNCHANGED <<lister, registered, registrations, lastSource, calls, now>>
    /\ UNCHANGED <<result, idx, available, failed, cancelled,
                   latestFailedRollouts, ch, panicked>>

\* c.lister.List fails: log and return.
CollectFetchFail ==
    /\ pc = "idle"
    /\ registered
    /\ fetches' = fetches + 1
    /\ err' = TRUE
    /\ pc' = "done"
    /\ UNCHANGED <<lister, registered, registrations, lastSource, calls, now>>
    /\ UNCHANGED <<result, idx, available, failed, cancelled,
                   latestFailedRollouts, ch, panicked>>

\* c.lister.List succeeds: the counters and the map are set up.
CollectFetchOk ==
    /\ pc = "idle"
    /\ registered
    /\ fetches' = fetches + 1
    /\ err' = FALSE
    /\ \E list \in Lists : result' = list
    /\ idx' = 1
    /\ available' = 0
    /\ failed' = 0
    /\ cancelled' = 0
    /\ latestFailedRollouts' = EmptyMap
    /\ pc' = "loop"
    /\ UNCHANGED <<lister, registered, registrations, lastSource, calls, now>>
    /\ UNCHANGED <<ch, panicked>>

InLoop(branch) ==
    /\ pc = "loop"
    /\ idx <= Len(result)
    /\ Classify(result[idx]) = branch

\* len(dcName) == 0: continue
SkipUnnamed ==
    /\ InLoop("skip")
    /\ idx' = idx + 1
    /\ UNCHANGED <<lister, registered, registrations, lastSource, calls, pc, now>>
    /\ UNCHANGED <<err, fetches, result, available, failed, cancelled,
                   latestFailedRollouts, ch, panicked>>

\* CountCancelled without the continue: the failed check runs as well.
CountCancelled_FallThrough ==
    /\ InLoop("cancelled")
    /\ cancelled' = cancelled + 1
    /\ failed' = IF IsFailedDeployment(result[idx]) THEN failed + 1 ELSE failed
    /\ available' =
        IF ~IsFailedDeployment(result[idx]) /\ IsCompleteDeployment(result[idx])
        THEN available + 1 ELSE available
    /\ idx' = idx + 1
    /\ UNCHANGED <<lister, registered, registrations, lastSource, calls, pc, now>>
    /\ UNCHANGED <<err, fetches, result, latestFailedRollouts, ch, panicked>>

CountCancelled ==
    /\ InLoop("cancelled")
    /\ cancelled' = cancelled + 1
    /\ idx' = idx + 1
    /\ UNCHANGED <<lister, registered, registrations, lastSource, calls, pc, now>>
    /\ UNCHANGED <<err, fetches, result, available, failed,
                   latestFailedRollouts, ch, panicked>>

CountFailed ==
    /\ InLoop("failed")
    /\ failed' = failed + 1
    /\ latestFailedRollouts' = UpdateLatestFailed(latestFailedRollouts, result[idx])
    /\ idx' = idx + 1
    /\ UNCHANGED <<lister, registered, registrations, lastSource, calls, pc, now>>
    /\ UNCHANGED <<err, fetches, result, available, cancelled, ch, panicked>>

CountAvailable ==
    /\ InLoop("available")
    /\ available' = available + 1
    /\ idx' = idx + 1
    /\ UNCHANGED <<lister, registered, registrations, lastSource, calls, pc, now>>
    /\ UNCHANGED <<err, fetches, result, failed, cancelled,
                   latestFailedRollouts, ch, panicked>>

\* The active branch: read the clock, send the duration sample.
EmitActive ==
    /\ InLoop("active")
    /\ \E t \in Times :
        /\ now' = t
        /\ LET sent == SendAll(ch, <<ActiveMetric(t, result[idx])>>)
           IN  /\ ch' = sent.ch
               /\ panicked' = sent.panicked
               /\ pc' = IF sent.panicked THEN "done" ELSE "loop"
    /\ idx' = idx + 1
    /\ UNCHANGED <<lister, registered, registrations, lastSource, calls>>
    /\ UNCHANGED <<err, fetches, result, available, failed, cancelled,
                   latestFailedRollouts>>

\* After the loop: the latest failed rollouts in the order the map yields
\* them, then the three counters.
CollectEmitTotals ==
    /\ pc = "loop"
    /\ idx > Len(result)
    /\ \E order \in Orderings(DOMAIN latestFailedRollouts) :
        LET failedMetrics ==
                [i \in 1..Len(order) |->
                    FailedMetric(order[i], latestFailedRollouts[order[i]])]
            sent == SendAll(ch, failedMetrics \o CounterMetrics(available, failed, cancelled))
        IN  /\ ch' = sent.ch
            /\ panicked' = sent.panicked
    /\ pc' = "done"
    /\ UNCHANGED <<lister, registered, registrations, lastSource, calls, now>>
    /\ UNCHANGED <<err, fetches, result, idx, available, failed, cancelled,
                   latestFailedRollouts>>

\* Collect returns; its locals are gone.
CollectReturn ==
    /\ pc = "done"
    /\ pc' = "idle"
    /\ err' = FALSE
    /\ fetches' = 0
    /\ result' = <<>>
    /\ idx' = 1
    /\ available' = 0
    /\ failed' = 0
    /\ cancelled' = 0
    /\ latestFailedRollouts' = EmptyMap
    /\ ch' = <<>>
    /\ panicked' = FALSE
    /\ UNCHANGED <<lister, registered, registrations, lastSource, calls, now>>

Next ==
    \/ IntializeMetricsCollector
    \/ CollectFetchFail
    \/ CollectFetchOk
    \/ SkipUnnamed
    \/ CountCancelled
    \/ CountFailed
    \/ CountAvailable
    \/ EmitActive
    \/ CollectEmitTotals
    \/ CollectReturn

Spec == Init /\ [][Next]_vars

(***************************************************************************)
(* The loop body on a failure index that already holds records.  Within a  *)
(* scrape the map never holds one (see C10), so the bookkeeping of the     *)
(* failed branch is exercised here as a function of the map and of the     *)
(* controller: the loop stands at the start of a list of failed rollouts   *)
(* and the map holds any records.                                          *)
(***************************************************************************)
FailedInputs ==
    {RC(ns, "b", "Failed", FALSE, g, s) : ns \in {"n1", "n2"}, g \in Gens, s \in Stamps}

FailedRollouts == [timestamp : Stamps, generation : Gens]

FailureMaps ==
    UNION {[K -> FailedRollouts] : K \in SUBSET {RolloutKey(d) : d \in FailedInputs}}

InitUpdate ==
    /\ lister = "rcListerA"
    /\ registered = TRUE
    /\ registrations = 1
    /\ lastSource = "rcListerA"
    /\ calls = "one"
    /\ pc = "loop"
    /\ now = 0
    /\ err = FALSE
    /\ fetches = 1
    /\ result \in [1..2 -> FailedInputs]
    /\ idx = 1
    /\ available = 0
    /\ failed = 0
    /\ cancelled = 0
    /\ latestFailedRollouts \in FailureMaps
    /\ ch = <<>>
    /\ panicked = FALSE

NextUpdate ==
    \/ CountFailed
    \/ CollectEmitTotals

SpecUpdate == InitUpdate /\ [][NextUpdate]_vars

(***************************************************************************)
(* Vocabulary of the properties.                                           *)
(***************************************************************************)
DurationName == "openshift_apps_deploymentconfigs_active_rollouts_duration_seconds"
LastFailedName == "openshift_apps_deploymentconfigs_last_failed_rollout_time"
CompleteName == "openshift_apps_deploymentconfigs_complete_rollouts_total"

IsDurationSample(m) == m.desc = DurationName
IsLastFailedSample(m) == m.desc = LastFailedName
IsCounterSample(m) == m.desc = CompleteName

Named(d) == d.Config # ""
Terminated(d) == d.Status \in {"Complete", "Failed"}
ActiveRollout(d) == Named(d) /\ ~Terminated(d)
CountedCancelled(d) == Named(d) /\ Terminated(d) /\ d.Cancelled
CountedFailed(d) == Named(d) /\ d.Status = "Failed" /\ ~d.Cancelled
CountedAvailable(d) == Named(d) /\ d.Status = "Complete" /\ ~d.Cancelled
KeyOf(d) == <<d.Namespace, d.Config>>

\* The resources the loop has gone through so far.
Processed == 1..(idx - 1)

Scraping == pc \in {"loop", "done"} /\ ~err
Scraped == pc = "done" /\ ~err

\* The loop is about to process result[idx].
AtResource == pc = "loop" /\ idx <= Len(result)

\* The loop has just processed result[idx - 1].
JustProcessed == pc = "loop" /\ idx > 1 /\ idx - 1 <= Len(result)

Positions(P(_)) == {i \in 1..Len(ch) : P(ch[i])}

(***************************************************************************)
(* C1: a scrape whose fetch failed has sent no metric at all, has not      *)
(* panicked, has called the lister once, and returns.                      *)
(***************************************************************************)
C1_FetchFailureEmitsNothing ==
    err => /\ pc = "done"
           /\ ch = <<>>
           /\ ~panicked
           /\ fetches = 1
           /\ ENABLED CollectReturn

C1_Witness == pc = "done" /\ err /\ ch = <<>>

(***************************************************************************)
(* C2: while and after the loop, available + failed + cancelled is the     *)
(* number of processed resources that are named and terminated as          *)
(* cancelled, failed or complete; the others add nothing.                  *)
(***************************************************************************)
C2_CounterSum ==
    Scraping =>
        available + failed + cancelled =
            Cardinality({i \in Processed :
                /\ Named(result[i])
                /\ Terminated(result[i])
                /\ \/ result[i].Cancelled
                   \/ result[i].Status = "Failed"
                   \/ result[i].Status = "Complete"})

C2_Witness ==
    /\ Scraped
    /\ Len(result) = 3
    /\ available + failed + cancelled = 1
    /\ \E i \in 1..3 : ~Named(result[i]) /\ Terminated(result[i])
    /\ \E i \in 1..3 : ActiveRollout(result[i])

(***************************************************************************)
(* C3: processing a resource with an empty workload name sends nothing,    *)
(* changes no counter and leaves the failure index alone.                  *)
(***************************************************************************)
C3_UnnamedIsSkipped ==
    [][(AtResource /\ ~Named(result[idx]))
         => UNCHANGED <<ch, available, failed, cancelled, latestFailedRollouts>>]_vars

C3_Witness ==
    /\ JustProcessed
    /\ ~Named(result[idx - 1])
    /\ result[idx - 1].Status = "Failed"
    /\ failed = 0
    /\ ch = <<>>

C5_LaterFailureReplaces ==
    [][(AtResource /\ CountedFailed(result[idx])
          /\ RolloutKey(result[idx]) \in DOMAIN latestFailedRollouts)
         => LET d == result[idx]
                key == d.Namespace \o "/" \o d.Config
                old == latestFailedRollouts[key]
            IN  /\ key \in DOMAIN latestFailedRollouts'
                /\ latestFailedRollouts'[key] =
                     IF d.ObservedGeneration > old.generation
                     THEN [timestamp |-> d.CreationTimestamp,
                           generation |-> d.ObservedGeneration]
                     ELSE old]_vars

\* g1 < g2 for one key and the record shows g2 with its timestamp.
C5_Witness ==
    /\ pc = "loop"
    /\ idx = 3
    /\ KeyOf(result[1]) = KeyOf(result[2])
    /\ result[1].ObservedGeneration < result[2].ObservedGeneration
    /\ result[1].CreationTimestamp # result[2].CreationTimestamp
    /\ RolloutKey(result[2]) \in DOMAIN latestFailedRollouts
    /\ latestFailedRollouts[RolloutKey(result[2])] =
         [timestamp |-> result[2].CreationTimestamp,
          generation |-> result[2].ObservedGeneration]

(***************************************************************************)
(* C6: the duration samples.                                               *)
(***************************************************************************)
\* The labels of the duration sample of d, given its phase label.
DurationLabels(d, phase) ==
    <<d.Namespace, d.Config, phase, FormatInt(d.ObservedGeneration)>>

\* The phase label as the claim has it: the phase, "unknown" when empty.
PhaseAsIs(d) == IF d.Status = "" THEN "unknown" ELSE d.Status

\* The phase label in lower case, "unknown" when empty.
PhaseLowered(d) == IF d.Status = "" THEN "unknown" ELSE ToLower(d.Status)

\* As many duration samples carry the labels of an active resource as there
\* are processed active resources with these labels, no duration sample
\* carries other labels, and the sample just sent has the clock reading
\* minus the creation time as its value.
DurationSamplesAre(Phase(_)) ==
    Scraping =>
        /\ \A i \in Processed :
            ActiveRollout(result[i]) =>
                Cardinality({k \in Positions(IsDurationSample) :
                    ch[k].labelValues = DurationLabels(result[i], Phase(result[i]))})
                = Cardinality({j \in Processed :
                    /\ ActiveRollout(result[j])
                    /\ DurationLabels(result[j], Phase(result[j]))
                         = DurationLabels(result[i], Phase(result[i]))})
        /\ Cardinality(Positions(IsDurationSample))
             = Cardinality({i \in Processed : ActiveRollout(result[i])})
        /\ (JustProcessed /\ ActiveRollout(result[idx - 1])) =>
             /\ ch # <<>>
             /\ IsDurationSample(ch[Len(ch)])
             /\ ch[Len(ch)].value = now - result[idx - 1].CreationTimestamp

\* C6 as claimed: every active named resource has exactly one duration
\* sample, valued now - creation time and labelled with namespace, name,
\* its phase ("unknown" when empty) and generation; terminated resources
\* have none.
C6_Original == DurationSamplesAre(PhaseAsIs)

\* C6 as amended: the phase label is the phase in lower case.
C6_DurationSamples == DurationSamplesAre(PhaseLowered)

C6_Witness ==
    /\ Scraped
    /\ Len(result) = 3
    /\ \E i \in 1..3 : ActiveRollout(result[i]) /\ result[i].Status = "Running"
    /\ \E i \in 1..3 : ActiveRollout(result[i]) /\ result[i].Status = ""
    /\ \E i \in 1..3 : Terminated(result[i]) /\ Named(result[i])
    /\ \E k \in 1..Len(ch) : IsDurationSample(ch[k]) /\ ch[k].value < 0
    /\ \E k \in 1..Len(ch) : IsDurationSample(ch[k]) /\ ch[k].labelValues[3] = "unknown"

(***************************************************************************)
(* C7: a successful scrape sends exactly three complete_rollouts_total     *)
(* samples, one per phase label, valued with the number of named resources *)
(* in that terminal state, cancelled taking precedence over failed and     *)
(* failed over complete.                                                   *)
(***************************************************************************)
CounterSampleIs(phase, n) ==
    Cardinality({k \in Positions(IsCounterSample) :
        ch[k].labelValues = <<phase>> /\ ch[k].value = n /\ ch[k].valueType = GaugeValue}) = 1

C7_ThreeCounterSamples ==
    Scraped =>
        /\ Cardinality(Positions(IsCounterSample)) = 3
        /\ CounterSampleIs("available",
             Cardinality({i \in 1..Len(result) : CountedAvailable(result[i])}))
        /\ CounterSampleIs("failed",
             Cardinality({i \in 1..Len(result) : CountedFailed(result[i])}))
        /\ CounterSampleIs("cancelled",
             Cardinality({i \in 1..Len(result) : CountedCancelled(result[i])}))

C7_Witness ==
    /\ Scraped
    /\ \E i \in 1..Len(result) :
        Named(result[i]) /\ result[i].Status = "Failed" /\ result[i].Cancelled
    /\ \E k \in 1..Len(ch) :
        IsCounterSample(ch[k]) /\ ch[k].labelValues = <<"failed">> /\ ch[k].value = 0
    /\ \E k \in 1..Len(ch) :
        IsCounterSample(ch[k]) /\ ch[k].labelValues = <<"cancelled">> /\ ch[k].value = 1

(***************************************************************************)
(* C8: the duration samples are in the order of their resources in the     *)
(* list, and no other sample is sent before the loop is through, that is   *)
(* before every duration sample.                                           *)
(***************************************************************************)
\* The i-th of the processed active resources.
RECURSIVE ActiveUpTo(_)
ActiveUpTo(n) ==
    IF n = 0 THEN <<>>
    ELSE IF ActiveRollout(result[n]) THEN Append(ActiveUpTo(n - 1), result[n])
    ELSE ActiveUpTo(n - 1)

C8_EmissionOrder ==
    Scraping =>
        LET durations == SelectSeq(ch, IsDurationSample)
            active == ActiveUpTo(idx - 1)
        IN  /\ Len(durations) = Len(active)
            /\ \A k \in 1..Len(durations) :
                /\ durations[k].labelValues[1] = active[k].Namespace
                /\ durations[k].labelValues[2] = active[k].Config
                /\ durations[k].labelValues[4] = FormatInt(active[k].ObservedGeneration)
            /\ \A i, j \in 1..Len(ch) :
                (i < j /\ IsDurationSample(ch[j])) => IsDurationSample(ch[i])
            /\ (\E k \in 1..Len(ch) : ~IsDurationSample(ch[k])) => idx > Len(result)

C8_Witness ==
    /\ Scraped
    /\ Len(ch) = 5
    /\ IsDurationSample(ch[1])
    /\ IsDurationSample(ch[2])
    /\ ch[1].labelValues # ch[2].labelValues
    /\ IsCounterSample(ch[3])

(***************************************************************************)
(* C9: once IntializeMetricsCollector has been called, however often, the  *)
(* collector has been registered exactly once and its lister is the one    *)
(* of the most recent call.                                                *)
(***************************************************************************)
C9_RegisteredOnce ==
    /\ calls = "none" => (registrations = 0 /\ ~registered)
    /\ calls # "none" =>
        /\ registered
        /\ registrations = 1
        /\ lister = lastSource
        /\ lister \in Listers

C9_Witness ==
    /\ calls = "several"
    /\ registrations = 1
    /\ lister = "rcListerB"

(***************************************************************************)
(* C10: the failure index is empty in every state of every scrape, no      *)
(* last_failed_rollout_time sample is ever sent, a successful scrape sends *)
(* one sample per active named resource and three more, and the list       *)
(* [cancelled A, failed B, failed B of a higher generation] ends with      *)
(* available = 0, failed = 2, cancelled = 1.                               *)
(***************************************************************************)
ScenarioList ==
    <<RC("n1", "a", "Failed", TRUE, 1, 1),
      RC("n1", "b", "Failed", FALSE, 1, 1),
      RC("n1", "b", "Failed", FALSE, MaxGen, 1)>>

====
